---- MODULE Spec2Model ----
(***************************************************************************)
(* A model of breadth.py: the per-ticker fetch loop of                     *)
(* calculate_indicators, the alignment of every surviving ticker on the    *)
(* common index, calculate_market_indicators for the universe and for each *)
(* sector group, and the three writes of main.                             *)
(*                                                                         *)
(* Timestamps are minutes of the day in New York time (09:30 is 570).      *)
(* A cell of a frame is [nan, val]: nan marks pandas' NaN.  A bar carries  *)
(* Close and Volume, the two fields calculate_market_indicators reads;     *)
(* Open, High and Low are carried by the frame's columns only.             *)
(***************************************************************************)
EXTENDS Integers, Sequences, FiniteSets, TLC

VARIABLES
    pc,                \* where main is
    fill_method,       \* what DataFrame.pct_change() fills with by default
    i,                 \* position of the fetch loop in tickers
    all_data,          \* ticker -> the bars history() returned (line 30)
    sectors,           \* ticker -> sector (line 31)
    history_calls,     \* ticker -> number of history() calls issued
    sector_calls,      \* ticker -> number of stock.info lookups issued
    history_result,    \* ticker -> "error" | "empty" | "data" | "none"
    sector_result,     \* ticker -> what the lookup answered, "none" before
    ohlcv_data,        \* first frame returned by calculate_indicators
    market_indicators, \* second frame
    sector_indicators, \* third frame
    written            \* the files written so far, in order

vars == <<pc, fill_method, i, all_data, sectors, history_calls, sector_calls,
          history_result, sector_result, ohlcv_data, market_indicators,
          sector_indicators, written>>

----------------------------------------------------------------------------
(* Bounds of the inputs *)

\* history() answers with bars in the first MaxBars minutes of the window
MaxBars == 3

\* the universe get_spx_tickers returns
tickers == <<"AAPL", "XOM">>

\* the bars a history may hold
Bars == {[Close |-> 10, Volume |-> 3], [Close |-> 11, Volume |-> 5]}

\* the sectors stock.info may name
SectorNames == {"Technology"}

----------------------------------------------------------------------------
(* get_market_open_close *)

OpenHour == 9
OpenMinute == 30
CloseHour == 12
CloseMinute == 30

open_time == OpenHour * 60 + OpenMinute
close_time == CloseHour * 60 + CloseMinute

get_market_open_close == <<open_time, close_time>>

start_time == get_market_open_close[1]
end_time == get_market_open_close[2]

----------------------------------------------------------------------------
(* Cells *)

NaN == [nan |-> TRUE, val |-> 0]
Val(v) == [nan |-> FALSE, val |-> v]

\* a column or an index built row by row, held as a sequence
Column(f) == f \o <<>>

\* pd.date_range(start, end, freq='1min'): both ends are included
date_range(start, end) ==
    Column([k \in 1..(end - start + 1) |-> start + (k - 1)])

\* the histories the provider may answer with: one bar per minute of a
\* non-empty set of minutes of [start, end)
BarMinutes == start_time .. (start_time + MaxBars - 1)
Histories ==
    UNION { [S -> Bars] : S \in (SUBSET BarMinutes) \ {{}} }

\* data.reindex(common_index) of one field of one ticker
reindex(bars, field, index) ==
    Column([k \in 1..Len(index) |->
        IF index[k] \in DOMAIN bars THEN Val(bars[index[k]][field]) ELSE NaN])

----------------------------------------------------------------------------
(* pandas primitives used by calculate_market_indicators *)

\* Series.ffill(): a NaN takes the last value before it, a leading NaN stays.
\* Rows lo..hi of the filled column, last being the filled row lo - 1.
RECURSIVE ffill_rows(_, _, _, _)
ffill_rows(col, lo, hi, last) ==
    IF lo > hi THEN <<>>
    ELSE IF lo = hi THEN <<IF col[lo].nan THEN last ELSE col[lo]>>
    ELSE LET mid == (lo + hi) \div 2
             left == ffill_rows(col, lo, mid, last)
         IN left \o ffill_rows(col, mid + 1, hi, left[Len(left)])

ffill(col) == ffill_rows(col, 1, Len(col), NaN)

\* a change is the fraction num/den - that is cur/prev - 1 - or NaN
NaNChange == [nan |-> TRUE, num |-> 0, den |-> 1]

\* Series.pct_change(): the column is filled by the default fill_method
\* first ("pad" up to pandas 2.x, nothing from pandas 3), then each row is
\* divided by the row before it; the first row has no row before it
pct_change(col, method) ==
    LET filled == IF method = "pad" THEN ffill(col) ELSE col
    IN Column([k \in 1..Len(col) |->
          IF k = 1 \/ filled[k].nan \/ filled[k - 1].nan
          THEN NaNChange
          ELSE [nan |-> FALSE,
                num |-> filled[k].val - filled[k - 1].val,
                den |-> filled[k - 1].val]])

\* the comparisons of a frame of changes with 0: NaN compares False
gt0(c) == ~c.nan /\ c.num * c.den > 0
lt0(c) == ~c.nan /\ c.num * c.den < 0
eq0(c) == ~c.nan /\ c.num = 0

\* Series.cumsum() of a column without NaN.
\* Rows lo..hi of the running total, base being the total of rows 1..lo - 1.
RECURSIVE cumsum_rows(_, _, _, _)
cumsum_rows(col, lo, hi, base) ==
    IF lo > hi THEN <<>>
    ELSE IF lo = hi THEN <<base + col[lo]>>
    ELSE LET mid == (lo + hi) \div 2
             left == cumsum_rows(col, lo, mid, base)
         IN left \o cumsum_rows(col, mid + 1, hi, left[Len(left)])

\* the column itself, as when .cumsum() is left out
cumsum_left_out(col) == col

cumsum(col) == cumsum_rows(col, 1, Len(col), 0)

\* DataFrame.sum(axis=1) of a frame of booleans: the count of True in row k
\* over the columns 1..j
RECURSIVE count_true(_, _, _)
count_true(mask, j, k) ==
    IF j = 0 THEN 0
    ELSE (IF mask[j][k] THEN 1 ELSE 0) + count_true(mask, j - 1, k)

\* volume_data.sum(axis=1), as when the mask is left out: row k, columns 1..j
RECURSIVE unmasked_sum(_, _, _, _)
unmasked_sum(volume, mask, j, k) ==
    IF j = 0 THEN 0
    ELSE (IF ~volume[j][k].nan THEN volume[j][k].val ELSE 0)
         + unmasked_sum(volume, mask, j - 1, k)

\* volume_data[mask].sum(axis=1): the cells where mask is False become NaN,
\* and sum skips NaN (a row of NaN only sums to 0); row k, columns 1..j
RECURSIVE masked_sum(_, _, _, _)
masked_sum(volume, mask, j, k) ==
    IF j = 0 THEN 0
    ELSE (IF mask[j][k] /\ ~volume[j][k].nan THEN volume[j][k].val ELSE 0)
         + masked_sum(volume, mask, j - 1, k)

\* float division of two columns: x/0 is inf (or -inf), 0/0 is NaN, and
\* nothing is raised
true_divide(x, y) ==
    IF y = 0
    THEN [kind |-> IF x > 0 THEN "inf" ELSE IF x < 0 THEN "-inf" ELSE "nan",
          num |-> 0, den |-> 1]
    ELSE [kind |-> "num", num |-> x, den |-> y]

----------------------------------------------------------------------------
(* Frames *)

Fields == <<"Open", "High", "Low", "Close", "Volume">>

IndicatorColumns ==
    <<"Advances", "Declines", "Unchanged", "AD_Line", "UVOL", "DVOL", "VOLD",
      "VOLD_Ratio">>

Range(s) == {s[k] : k \in DOMAIN s}

\* A frame: its index, its column labels, the tickers of its columns in
\* column order, and per ticker the Close and the Volume column.
\* pd.DataFrame(): no row, no column
EmptyFrame ==
    [index |-> <<>>, columns |-> {}, keys |-> <<>>, Close |-> <<>>,
     Volume |-> <<>>]

\* an indicator frame with no row and no column
EmptyIndicators == [index |-> <<>>, columns |-> {}, data |-> <<>>]

\* calculate_market_indicators(data)
calculate_market_indicators(data, method) ==
    LET m == Len(data.keys)
        n == Len(data.index)
        price_changes ==
            Column([j \in 1..m |-> pct_change(data.Close[j], method)])
        volume_data == data.Volume
        up == Column([j \in 1..m |->
                Column([k \in 1..n |-> gt0(price_changes[j][k])])])
        down == Column([j \in 1..m |->
                  Column([k \in 1..n |-> lt0(price_changes[j][k])])])
        flat == Column([j \in 1..m |->
                  Column([k \in 1..n |-> eq0(price_changes[j][k])])])
        Advances == Column([k \in 1..n |-> count_true(up, m, k)])
        Declines == Column([k \in 1..n |-> count_true(down, m, k)])
        Unchanged == Column([k \in 1..n |-> count_true(flat, m, k)])
        AD_Line == cumsum(Column([k \in 1..n |-> Advances[k] - Declines[k]]))
        uvol_per_period ==
            Column([k \in 1..n |-> masked_sum(volume_data, up, m, k)])
        dvol_per_period ==
            Column([k \in 1..n |-> masked_sum(volume_data, down, m, k)])
        UVOL == cumsum(uvol_per_period)
        DVOL == cumsum(dvol_per_period)
    IN [index |-> data.index,
        columns |-> Range(IndicatorColumns),
        data |-> [Advances |-> Advances,
                  Declines |-> Declines,
                  Unchanged |-> Unchanged,
                  AD_Line |-> AD_Line,
                  UVOL |-> UVOL,
                  DVOL |-> DVOL,
                  VOLD |-> Column([k \in 1..n |-> UVOL[k] - DVOL[k]]),
                  VOLD_Ratio |->
                      Column([k \in 1..n |-> true_divide(UVOL[k], DVOL[k])])]]

\* the column of ticker t in a frame
column_of(data, t) == CHOOSE j \in 1..Len(data.keys) : data.keys[j] = t

\* combined_data[sector_tickers]: the columns of the tickers listed
select_tickers(data, ticker_list) ==
    [index |-> data.index,
     columns |-> Range(ticker_list) \X Range(Fields),
     keys |-> ticker_list,
     Close |-> Column([j \in 1..Len(ticker_list) |->
                  data.Close[column_of(data, ticker_list[j])]]),
     Volume |-> Column([j \in 1..Len(ticker_list) |->
                  data.Volume[column_of(data, ticker_list[j])]])]

\* the keys of a dict filled in the order of the universe
keys_of(dict) ==
    LET in_dict(t) == t \in DOMAIN dict
    IN SelectSeq(tickers, in_dict)

\* [ticker for ticker, sec in sectors.items()], as when the filter is left out
sector_tickers_unfiltered(secs, sector) ==
    LET in_secs(t) == t \in DOMAIN secs
    IN SelectSeq(tickers, in_secs)

\* [ticker for ticker, sec in sectors.items() if sec == sector]
sector_tickers(secs, sector) ==
    LET in_sector(t) == t \in DOMAIN secs /\ secs[t] = sector
    IN SelectSeq(tickers, in_sector)

\* three frames with no column but the index of a normal run, as when the
\* common index is built before the early return
empty_frames_indexed ==
    <<[EmptyFrame EXCEPT !.index = date_range(start_time, end_time)],
      [EmptyIndicators EXCEPT !.index = date_range(start_time, end_time)],
      [EmptyIndicators EXCEPT !.index = date_range(start_time, end_time)]>>

\* return pd.DataFrame(), pd.DataFrame(), pd.DataFrame()
empty_frames == <<EmptyFrame, EmptyIndicators, EmptyIndicators>>

\* the part of calculate_indicators after the fetch loop
calculate_indicators_frames(data, secs, method) ==
    IF DOMAIN data = {}
    THEN empty_frames
    ELSE LET common_index == date_range(start_time, end_time)
             keys == keys_of(data)
             combined_data ==
                 [index |-> common_index,
                  columns |-> Range(keys) \X Range(Fields),
                  keys |-> keys,
                  Close |-> Column([j \in 1..Len(keys) |->
                      reindex(data[keys[j]], "Close", common_index)]),
                  Volume |-> Column([j \in 1..Len(keys) |->
                      reindex(data[keys[j]], "Volume", common_index)])]
             indicators == calculate_market_indicators(combined_data, method)
             sector_set == {secs[t] : t \in DOMAIN secs}
             sector_indicators_df ==
                 [index |-> common_index,
                  columns |-> sector_set \X Range(IndicatorColumns),
                  data |-> [sector \in sector_set |->
                              calculate_market_indicators(
                                  select_tickers(combined_data,
                                                 sector_tickers(secs, sector)),
                                  method).data]]
         IN <<combined_data, indicators, sector_indicators_df>>

-----
(* get_sector *)

\* what the lookup of stock.info does: it raises ("error"), it finds no
\* 'sector' key ("nokey"), or it finds a sector name.  The runs explored draw
\* from a raising lookup and the sector names.
SectorAnswers == {"error"} \cup SectorNames

\* get_sector returning None from its except branch
get_sector_none(answer) ==
    IF answer = "error" THEN "None"
    ELSE IF answer = "nokey" THEN "Unknown"
    ELSE answer

get_sector(answer) ==
    IF answer = "error" THEN "Unknown"
    ELSE IF answer = "nokey" THEN "Unknown"
    ELSE answer

----------------------------------------------------------------------------
(* The run *)

TickerSet == Range(tickers)

Init ==
    /\ pc = "fetch"
    /\ fill_method \in {"pad", "none"}
    /\ i = 1
    /\ all_data = <<>>
    /\ sectors = <<>>
    /\ history_calls = [t \in TickerSet |-> 0]
    /\ sector_calls = [t \in TickerSet |-> 0]
    /\ history_result = [t \in TickerSet |-> "none"]
    /\ sector_result = [t \in TickerSet |-> "none"]
    /\ ohlcv_data = EmptyFrame
    /\ market_indicators = EmptyIndicators
    /\ sector_indicators = EmptyIndicators
    /\ written = <<>>

\* history() raises and the loop calls it again for the same ticker
FetchErrorRetried ==
    /\ pc = "fetch"
    /\ i <= Len(tickers)
    /\ history_calls' = [history_calls EXCEPT ![tickers[i]] = @ + 1]
    /\ history_result' = [history_result EXCEPT ![tickers[i]] = "error"]
    /\ UNCHANGED <<pc, fill_method, i, all_data, sectors, sector_calls,
                   sector_result, ohlcv_data, market_indicators,
                   sector_indicators, written>>

\* one iteration of the fetch loop: history() raises
FetchError ==
    /\ pc = "fetch"
    /\ i <= Len(tickers)
    /\ history_calls' = [history_calls EXCEPT ![tickers[i]] = @ + 1]
    /\ history_result' = [history_result EXCEPT ![tickers[i]] = "error"]
    /\ i' = i + 1
    /\ UNCHANGED <<pc, fill_method, all_data, sectors, sector_calls,
                   sector_result, ohlcv_data, market_indicators,
                   sector_indicators, written>>

\* history() returns an empty frame and the loop keeps it, as when the test
\* of data.empty is left out
FetchEmptyKept ==
    /\ pc = "fetch"
    /\ i <= Len(tickers)
    /\ all_data' = (tickers[i] :> <<>>) @@ all_data
    /\ sectors' = (tickers[i] :> "Unknown") @@ sectors
    /\ history_calls' = [history_calls EXCEPT ![tickers[i]] = @ + 1]
    /\ history_result' = [history_result EXCEPT ![tickers[i]] = "empty"]
    /\ i' = i + 1
    /\ UNCHANGED <<pc, fill_method, sector_calls, sector_result, ohlcv_data,
                   market_indicators, sector_indicators, written>>

\* one iteration of the fetch loop: history() returns an empty frame
FetchEmpty ==
    /\ pc = "fetch"
    /\ i <= Len(tickers)
    /\ history_calls' = [history_calls EXCEPT ![tickers[i]] = @ + 1]
    /\ history_result' = [history_result EXCEPT ![tickers[i]] = "empty"]
    /\ i' = i + 1
    /\ UNCHANGED <<pc, fill_method, all_data, sectors, sector_calls,
                   sector_result, ohlcv_data, market_indicators,
                   sector_indicators, written>>

\* one iteration of the fetch loop: history() returns bars, get_sector runs
FetchData ==
    /\ pc = "fetch"
    /\ i <= Len(tickers)
    /\ \E bars \in Histories, answer \in SectorAnswers :
         /\ all_data' = (tickers[i] :> bars) @@ all_data
         /\ sectors' = (tickers[i] :> get_sector(answer)) @@ sectors
         /\ sector_result' = [sector_result EXCEPT ![tickers[i]] = answer]
    /\ history_calls' = [history_calls EXCEPT ![tickers[i]] = @ + 1]
    /\ history_result' = [history_result EXCEPT ![tickers[i]] = "data"]
    /\ sector_calls' = [sector_calls EXCEPT ![tickers[i]] = @ + 1]
    /\ i' = i + 1
    /\ UNCHANGED <<pc, fill_method, ohlcv_data, market_indicators,
                   sector_indicators, written>>

\* the rest of calculate_indicators, once the loop is over
Compute ==
    /\ pc = "fetch"
    /\ i > Len(tickers)
    /\ LET frames == calculate_indicators_frames(all_data, sectors, fill_method)
       IN /\ ohlcv_data' = frames[1]
          /\ market_indicators' = frames[2]
          /\ sector_indicators' = frames[3]
    /\ pc' = "write_ohlcv"
    /\ UNCHANGED <<fill_method, i, all_data, sectors, history_calls,
                   sector_calls, history_result, sector_result, written>>

\* ohlcv_data.to_csv
WriteOhlcv ==
    /\ pc = "write_ohlcv"
    /\ written' = Append(written, "ohlcv")
    /\ pc' = "write_market"
    /\ UNCHANGED <<fill_method, i, all_data, sectors, history_calls,
                   sector_calls, history_result, sector_result, ohlcv_data,
                   market_indicators, sector_indicators>>

\* market_indicators.to_csv
WriteMarket ==
    /\ pc = "write_market"
    /\ written' = Append(written, "market_indicators")
    /\ pc' = "write_sector"
    /\ UNCHANGED <<fill_method, i, all_data, sectors, history_calls,
                   sector_calls, history_result, sector_result, ohlcv_data,
                   market_indicators, sector_indicators>>

\* sector_indicators.to_csv
WriteSector ==
    /\ pc = "write_sector"
    /\ written' = Append(written, "sector_indicators")
    /\ pc' = "done"
    /\ UNCHANGED <<fill_method, i, all_data, sectors, history_calls,
                   sector_calls, history_result, sector_result, ohlcv_data,
                   market_indicators, sector_indicators>>

Next ==
    \/ FetchError
    \/ FetchEmpty
    \/ FetchData
    \/ Compute
    \/ WriteOhlcv
    \/ WriteMarket
    \/ WriteSector

Spec == Init /\ [][Next]_vars

----------------------------------------------------------------------------
(* What the claims speak of *)

\* calculate_indicators has returned
Computed == pc # "fetch"

\* the fetch loop is over
LoopOver == i > Len(tickers)

\* the tickers that survived the fetch loop
Surviving == DOMAIN all_data

\* the rows of the Time Index of the run
Rows == 1..Len(market_indicators.index)

\* the ticker subsets calculate_market_indicators ran on: the whole universe
\* and each sector group
UniverseGroup == "(universe)"
SectorGroups == DOMAIN sector_indicators.data
Groups == IF Surviving = {} THEN {} ELSE {UniverseGroup} \cup SectorGroups

IndicatorsOf(g) ==
    IF g = UniverseGroup THEN market_indicators.data
    ELSE sector_indicators.data[g]

TickersOf(g) ==
    IF g = UniverseGroup THEN Surviving
    ELSE {t \in DOMAIN sectors : sectors[t] = g}

\* the reindexed bar of ticker t at row k is there
BarPresent(t, k) == ~ohlcv_data.Close[column_of(ohlcv_data, t)][k].nan

\* the Close change of ticker t at row k is defined: there is a row before,
\* and the bars of both rows are there
DefinedChange(t, k) == k > 1 /\ BarPresent(t, k) /\ BarPresent(t, k - 1)

\* the three files main writes, in the order it writes them
OutputKinds == <<"ohlcv", "market_indicators", "sector_indicators">>

\* the fetch loop, when tickers are left, can take the next one
LoopGoesOn == (pc = "fetch" /\ ~LoopOver) => ENABLED FetchData

\* a run that fetched nothing is over or can go on
Continues == pc = "done" \/ ENABLED Next

\* the sum of rows lo..hi of Advances - Declines of a frame
RECURSIVE NetAdvances(_, _, _)
NetAdvances(d, lo, hi) ==
    IF lo > hi THEN 0
    ELSE IF lo = hi THEN d.Advances[lo] - d.Declines[lo]
    ELSE NetAdvances(d, lo, (lo + hi) \div 2)
         + NetAdvances(d, (lo + hi) \div 2 + 1, hi)

\* the sum over the sector groups S of row k of column name
RECURSIVE SectorSum(_, _, _)
SectorSum(S, name, k) ==
    IF S = {} THEN 0
    ELSE LET g == CHOOSE x \in S : TRUE
         IN sector_indicators.data[g][name][k] + SectorSum(S \ {g}, name, k)

----------------------------------------------------------------------------
(* C1 *)

\* C1: at every period and for every ticker subset (the universe and each
\* sector group), Advances + Declines + Unchanged is the number of tickers
\* of the subset whose Close change is defined (a period after the first,
\* with the bar of the period and the bar of the period before both there);
\* so it is at most the size of the subset, and 0 in the first period.
C1_MissingChangeCountedNowhere ==
    Computed =>
        \A g \in Groups : \A k \in Rows :
            /\ IndicatorsOf(g).Advances[k] + IndicatorsOf(g).Declines[k]
                  + IndicatorsOf(g).Unchanged[k]
               = Cardinality({t \in TickersOf(g) : DefinedChange(t, k)})
            /\ IndicatorsOf(g).Advances[k] + IndicatorsOf(g).Declines[k]
                  + IndicatorsOf(g).Unchanged[k]
               <= Cardinality(TickersOf(g))
            /\ k = 1 =>
                  IndicatorsOf(g).Advances[k] + IndicatorsOf(g).Declines[k]
                     + IndicatorsOf(g).Unchanged[k] = 0

----------------------------------------------------------------------------
(* C2 *)

\* the three frames have no column and an index of len rows
FramesShaped(len) ==
    /\ ohlcv_data.columns = {} /\ Len(ohlcv_data.index) = len
    /\ market_indicators.columns = {} /\ Len(market_indicators.index) = len
    /\ sector_indicators.columns = {} /\ Len(sector_indicators.index) = len

----------------------------------------------------------------------------
(* C3 *)

\* C3: the Time Index built by calculate_indicators is every minute of
\* [open, open + 3h): it starts at 09:30, has 180 entries, and does not
\* hold 12:30.
C3_TimeIndexHalfOpen ==
    (Computed /\ Surviving # {}) =>
        /\ ohlcv_data.index[1] = start_time
        /\ Len(ohlcv_data.index) = end_time - start_time
        /\ end_time \notin Range(ohlcv_data.index)

----------------------------------------------------------------------------
(* C4 *)

\* C4: at every period where the cumulative DVOL is zero, VOLD_Ratio is the
\* missing marker (NaN): not zero, not any number, not an infinity.
C4_RatioMissingWhenDvolZero ==
    Computed =>
        \A g \in Groups : \A k \in Rows :
            IndicatorsOf(g).DVOL[k] = 0 =>
                IndicatorsOf(g).VOLD_Ratio[k].kind = "nan"

----------------------------------------------------------------------------
(* C5 *)

\* C5: a ticker whose history call raises or returns an empty frame is
\* dropped and the loop goes on: of the tickers the loop has passed, the
\* surviving ones are exactly those whose call returned bars, and when the
\* loop is over that is all of them, wherever the failing ones stand.
C5_SurvivorsAreTickersWithBars ==
    /\ \A j \in 1..Len(tickers) :
          /\ j < i => /\ history_result[tickers[j]] # "none"
                      /\ tickers[j] \in Surviving
                           <=> history_result[tickers[j]] = "data"
          /\ j >= i => tickers[j] \notin Surviving
    /\ LoopOver =>
          Surviving = {t \in TickerSet : history_result[t] = "data"}
    /\ LoopGoesOn

\* the first ticker raised, the loop went on and the second survived
C5_Witness ==
    /\ LoopOver
    /\ history_result[tickers[1]] = "error"
    /\ history_result[tickers[2]] = "data"
    /\ Surviving = {tickers[2]}

----------------------------------------------------------------------------
(* C6 *)

\* C6: a ticker whose sector lookup raised has the sector "Unknown", stays
\* among the surviving tickers with the bars fetched for it (they are its
\* columns of the combined frame), and the run goes on.
C6_SectorFailureKeepsTicker ==
    \A t \in TickerSet :
        sector_result[t] = "error" =>
            /\ t \in Surviving
            /\ t \in DOMAIN sectors
            /\ sectors[t] = "Unknown"
            /\ LoopGoesOn
            /\ pc = "done" => written = OutputKinds
            /\ Computed =>
                  /\ t \in Range(ohlcv_data.keys)
                  /\ \A k \in Rows :
                        BarPresent(t, k) <=>
                            ohlcv_data.index[k] \in DOMAIN all_data[t]
                  /\ t \in TickersOf("Unknown")
                  /\ "Unknown" \in SectorGroups

\* the lookup of the first ticker raised, and the run ended with its columns
C6_Witness ==
    /\ pc = "done"
    /\ sector_result[tickers[1]] = "error"
    /\ sectors[tickers[1]] = "Unknown"
    /\ tickers[1] \in Range(ohlcv_data.keys)
    /\ written = OutputKinds

----------------------------------------------------------------------------
(* C7 *)

\* C7: at every period - so at every period with no missing data - the sum
\* over the sector groups of Advances is the Advances of the universe, and
\* the same for Declines; and every surviving ticker is in exactly one
\* sector group.
C7_SectorsAddUpToUniverse ==
    (Computed /\ Surviving # {}) =>
        /\ \A k \in Rows :
              /\ SectorSum(SectorGroups, "Advances", k)
                    = market_indicators.data.Advances[k]
              /\ SectorSum(SectorGroups, "Declines", k)
                    = market_indicators.data.Declines[k]
        /\ \A t \in Surviving :
              Cardinality({g \in SectorGroups :
                              t \in Range(sector_tickers(sectors, g))}) = 1

\* two sector groups of one ticker each, both tickers with their first two
\* bars, one advancing and one declining in the second period
C7_Witness ==
    /\ Computed
    /\ Surviving = TickerSet
    /\ Cardinality(SectorGroups) = 2
    /\ \A t \in TickerSet : BarPresent(t, 1) /\ BarPresent(t, 2)
    /\ market_indicators.data.Advances[2] = 1
    /\ market_indicators.data.Declines[2] = 1
    /\ \E g \in SectorGroups : sector_indicators.data[g].Advances[2] = 1
    /\ \E g \in SectorGroups : sector_indicators.data[g].Declines[2] = 1

----------------------------------------------------------------------------
(* C8 *)

\* C8: AD_Line is the running sum of Advances - Declines from zero: it is
\* Advances - Declines at the first period, which is 0; it grows by
\* Advances - Declines at every later period; and at the last period it is
\* the sum over all the periods.
C8_AdLineIsRunningSum ==
    Computed =>
        \A g \in Groups :
            /\ \A k \in Rows :
                  IndicatorsOf(g).AD_Line[k]
                     = (IF k = 1 THEN 0 ELSE IndicatorsOf(g).AD_Line[k - 1])
                       + IndicatorsOf(g).Advances[k]
                       - IndicatorsOf(g).Declines[k]
            /\ IndicatorsOf(g).AD_Line[1] = 0
            /\ IndicatorsOf(g).AD_Line[Len(market_indicators.index)]
                  = NetAdvances(IndicatorsOf(g), 1,
                                Len(market_indicators.index))

\* one ticker advances in the second period and the other in the third:
\* AD_Line goes 0, 1, 2
C8_Witness ==
    /\ Computed
    /\ Surviving = TickerSet
    /\ market_indicators.data.AD_Line[1] = 0
    /\ market_indicators.data.AD_Line[2] = 1
    /\ market_indicators.data.AD_Line[3] = 2
    /\ market_indicators.data.Advances[3] = 1

----------------------------------------------------------------------------
(* C9 *)

\* C9: UVOL and DVOL never decrease over the Time Index, and a period with
\* no advancing (declining) ticker adds 0 to UVOL (DVOL).
C9_VolumesNonDecreasing ==
    Computed =>
        \A g \in Groups : \A k \in Rows :
            /\ IndicatorsOf(g).UVOL[k]
                  >= (IF k = 1 THEN 0 ELSE IndicatorsOf(g).UVOL[k - 1])
            /\ IndicatorsOf(g).DVOL[k]
                  >= (IF k = 1 THEN 0 ELSE IndicatorsOf(g).DVOL[k - 1])
            /\ IndicatorsOf(g).Advances[k] = 0 =>
                  IndicatorsOf(g).UVOL[k]
                     = (IF k = 1 THEN 0 ELSE IndicatorsOf(g).UVOL[k - 1])
            /\ IndicatorsOf(g).Declines[k] = 0 =>
                  IndicatorsOf(g).DVOL[k]
                     = (IF k = 1 THEN 0 ELSE IndicatorsOf(g).DVOL[k - 1])

\* a ticker with a missing bar between two bars, UVOL growing in one period
\* and DVOL in another
C9_Witness ==
    /\ Computed
    /\ \E t \in Surviving :
          BarPresent(t, 1) /\ ~BarPresent(t, 2) /\ BarPresent(t, 3)
    /\ market_indicators.data.UVOL[2] > 0
    /\ market_indicators.data.DVOL[2] = 0
    /\ market_indicators.data.DVOL[3] > 0
    /\ market_indicators.data.UVOL[3] = market_indicators.data.UVOL[2]

----------------------------------------------------------------------------
(* C10 *)

\* C10: the history call is issued once for every ticker the loop has
\* passed and never again, the sector lookup at most once per ticker and
\* only for a ticker whose history held bars, and the three files are
\* written once each, in order, after the loop and the computation.
C10_EachCallOnce ==
    /\ \A j \in 1..Len(tickers) :
          /\ history_calls[tickers[j]] = (IF j < i THEN 1 ELSE 0)
          /\ sector_calls[tickers[j]]
                = (IF history_result[tickers[j]] = "data" THEN 1 ELSE 0)
    /\ Len(written) <= Len(OutputKinds)
    /\ written = SubSeq(OutputKinds, 1, Len(written))
    /\ written # <<>> => LoopOver /\ Computed
    /\ pc = "done" => written = OutputKinds

\* a run that ended after one ticker raised, and one returned bars
C10_Witness ==
    /\ pc = "done"
    /\ written = OutputKinds
    /\ history_result[tickers[1]] = "data"
    /\ history_result[tickers[2]] = "error"
    /\ history_calls[tickers[2]] = 1
    /\ sector_calls[tickers[2]] = 0

====
